---- MODULE Spec2Model ----
(***************************************************************************)
(* Model of the notification server: the HTTP routes that validate and     *)
(* dispatch email / SMS notifications (routes/email-routes.js,             *)
(* routes/sms-routes.js, services/email-service.js, services/sms-service.js*)
(* services/feedback-service.js, middleware/error-handler.js) and the      *)
(* keep-alive service (server-keepalive.js).                               *)
(***************************************************************************)
EXTENDS Integers, Sequences, FiniteSets, TLC

VARIABLES
    nodeEnv,        \* process.env.NODE_ENV
    apiKey,         \* EmailService.apiKey is set (RESEND_API_KEY)
    accountSid,     \* SmsService.accountSid is set (TWILIO_ACCOUNT_SID)
    authToken,      \* SmsService.authToken is set (TWILIO_AUTH_TOKEN)
    fromNumber,     \* SmsService.fromNumber is set (TWILIO_PHONE_NUMBER)
    req,            \* body of the request being handled
    pc,             \* position of the request handler
    providerCalls,  \* axios.post / messages.create calls made for req
    outcome,        \* how the provider call of req settled
    thrown,         \* error thrown by the service method for req
    res,            \* response sent to the caller for req
    handled,        \* number of requests that have arrived
    rendered,       \* a template function was called for req
    enabled,        \* ServerKeepAlive.enabled
    stats,          \* ServerKeepAlive.stats
    cronTasks,      \* recurring tasks registered with cron.schedule
    warmups,        \* pending setTimeout callbacks of start
    inflight,       \* performSelfPing calls awaiting axios.get
    minute,         \* wall-clock minute of the hour
    elapsed,        \* minutes since the process started
    startCalls,     \* calls of start so far
    snapshot,       \* what the last getStats returned
    completedTicks, \* performSelfPing calls that have returned
    failedTicks,    \* of these, those whose axios.get was rejected
    uncaught,       \* exceptions that left a timer callback uncaught
    lastCronAt,     \* value of elapsed when the recurring task last ran
    cronGap,        \* minutes between its last two runs
    called,         \* the text function applied last
    arg,            \* its argument
    result,         \* what it returned, one entry per application
    healthRes       \* response to the last request of routes/health.js

dispatchVars ==
    <<req, pc, providerCalls, outcome, thrown, res, handled, rendered>>

configVars == <<nodeEnv, apiKey, accountSid, authToken, fromNumber>>

keepAliveVars ==
    <<enabled, stats, cronTasks, warmups, inflight, minute, elapsed,
      startCalls, snapshot, completedTicks, failedTicks, uncaught,
      lastCronAt, cronGap>>

textVars == <<called, arg, result>>

vars == <<configVars, dispatchVars, keepAliveVars, textVars, healthRes>>

(***************************************************************************)
(* Bounds                                                                  *)
(***************************************************************************)
\* requests handled in one behaviour (a request shares no state with the next)
MaxRequests == 1
\* calls of ServerKeepAlive.start in one behaviour
MaxStarts == 2
\* minutes of wall-clock time one behaviour covers
MaxElapsed == 5

(***************************************************************************)
(* Values of request fields.  A field that the body does not carry is      *)
(* Absent (undefined in the handler).                                      *)
(***************************************************************************)
Absent == "<absent>"

NodeEnvs == {"production", "development", Absent}

WellFormedEmails == {"a@b.com", "r@b.com"}
WellFormedPhones == {"+15551234567"}
WellFormedUrls   == {"https://g.co/r", "ftp://g.co/r"}

\* A rating as the JSON body carries it: a number (in tenths) or something
\* that is no number at all.
Rating(t) == [float |-> TRUE, tenths |-> t]
NotANumber == [float |-> FALSE, tenths |-> 0]

\* express-validator's validators, as the routes use them
IsEmail(v) == v \in WellFormedEmails
IsMobilePhone(v) == v \in WellFormedPhones
IsURL(v) == v \in WellFormedUrls
NotEmpty(v) == v # Absent /\ v # ""
IsFloat(v, min, max) == v.float /\ v.tenths >= min * 10 /\ v.tenths <= max * 10

NoRating == NotANumber

Body(route, toEmail, phoneNumber, customerName, businessName, reviewLink, replyTo, businessId, rating, feedback) ==
    [route |-> route, toEmail |-> toEmail, phoneNumber |-> phoneNumber,
     customerName |-> customerName, businessName |-> businessName,
     reviewLink |-> reviewLink, replyTo |-> replyTo,
     businessId |-> businessId, rating |-> rating, feedback |-> feedback,
     customData |-> Absent]

\* customData as the JSON body carries it: missing, null, or an object whose
\* messageTemplate is a number.  No validator looks at it.
NullData == "null"
NumericTemplate == "{ messageTemplate: 5 }"

NoReq == Body("none", Absent, Absent, Absent, Absent, Absent, Absent, Absent,
              NoRating, Absent)

ToEmails == {"a@b.com", "not-an-email"}
PhoneNumbers == {"+15551234567", "12"}
CustomerNames == {"Jane", Absent}
BusinessNames == {"Acme", ""}
ReviewLinks == {"https://g.co/r", "ftp://g.co/r", "not a url"}
ReplyTos == {Absent, "r@b.com", "bad"}
BusinessIds == {"biz1", Absent}
Ratings == {Rating(0), Rating(10), Rating(25), Rating(50), Rating(60), NotANumber}
Feedbacks == {"slow service", ""}

EmailReviewBodies ==
    { [Body("emailReview", e, Absent, c, b, l, r, Absent, NoRating, Absent)
          EXCEPT !.customData = d] :
        e \in ToEmails, c \in CustomerNames, b \in BusinessNames,
        l \in ReviewLinks, r \in ReplyTos, d \in {Absent, NullData} }

EmailTestBodies ==
    { Body("emailTest", e, Absent, Absent, Absent, Absent, Absent, Absent,
           NoRating, Absent) : e \in ToEmails }

FeedbackBodies ==
    { Body("emailFeedback", e, Absent, c, b, Absent, Absent, i, r, f) :
        e \in ToEmails, c \in CustomerNames, b \in BusinessNames,
        i \in BusinessIds, r \in Ratings, f \in Feedbacks }

SmsReviewBodies ==
    { [Body("smsReview", Absent, p, c, b, l, Absent, Absent, NoRating, Absent)
          EXCEPT !.customData = d] :
        p \in PhoneNumbers, c \in CustomerNames, b \in BusinessNames,
        l \in ReviewLinks, d \in {Absent, NumericTemplate} }

SmsTestBodies ==
    { Body("smsTest", Absent, p, Absent, Absent, Absent, Absent, Absent,
           NoRating, Absent) : p \in PhoneNumbers }

(***************************************************************************)
(* validationResult(req) of each route: the names of the fields whose      *)
(* validator chain failed.                                                 *)
(***************************************************************************)
\* EmailReviewErrors without the validator of reviewLink
EmailReviewErrors_NoLinkCheck(f) ==
    (IF IsEmail(f.toEmail) THEN {} ELSE {"toEmail"})
    \cup (IF NotEmpty(f.customerName) THEN {} ELSE {"customerName"})
    \cup (IF NotEmpty(f.businessName) THEN {} ELSE {"businessName"})
    \cup (IF f.replyTo = Absent \/ IsEmail(f.replyTo) THEN {} ELSE {"replyTo"})

EmailReviewErrors(f) ==
    (IF IsEmail(f.toEmail) THEN {} ELSE {"toEmail"})
    \cup (IF NotEmpty(f.customerName) THEN {} ELSE {"customerName"})
    \cup (IF NotEmpty(f.businessName) THEN {} ELSE {"businessName"})
    \cup (IF IsURL(f.reviewLink) THEN {} ELSE {"reviewLink"})
    \cup (IF f.replyTo = Absent \/ IsEmail(f.replyTo) THEN {} ELSE {"replyTo"})

EmailTestErrors(f) ==
    IF IsEmail(f.toEmail) THEN {} ELSE {"toEmail"}

\* the validators of POST /feedback-notification without the one of rating
FeedbackErrors_NoRatingCheck(f) ==
    (IF NotEmpty(f.businessId) THEN {} ELSE {"businessId"})
    \cup (IF IsEmail(f.toEmail) THEN {} ELSE {"toEmail"})
    \cup (IF NotEmpty(f.businessName) THEN {} ELSE {"businessName"})
    \cup (IF NotEmpty(f.feedback) THEN {} ELSE {"feedback"})

FeedbackErrors(f) ==
    (IF NotEmpty(f.businessId) THEN {} ELSE {"businessId"})
    \cup (IF IsEmail(f.toEmail) THEN {} ELSE {"toEmail"})
    \cup (IF NotEmpty(f.businessName) THEN {} ELSE {"businessName"})
    \cup (IF IsFloat(f.rating, 1, 5) THEN {} ELSE {"rating"})
    \cup (IF NotEmpty(f.feedback) THEN {} ELSE {"feedback"})

SmsReviewErrors(f) ==
    (IF IsMobilePhone(f.phoneNumber) THEN {} ELSE {"phoneNumber"})
    \cup (IF NotEmpty(f.customerName) THEN {} ELSE {"customerName"})
    \cup (IF NotEmpty(f.businessName) THEN {} ELSE {"businessName"})
    \cup (IF IsURL(f.reviewLink) THEN {} ELSE {"reviewLink"})

SmsTestErrors(f) ==
    IF IsMobilePhone(f.phoneNumber) THEN {} ELSE {"phoneNumber"}

(***************************************************************************)
(* Errors.  origin tells whose object the error is: "service" for an Error *)
(* the service code constructs, "transport" for the exception the HTTP     *)
(* client (axios, twilio) raised, "runtime" for one the JavaScript runtime *)
(* raised (TypeError, ReferenceError).  statusCode 0 is an absent          *)
(* err.statusCode.                                                         *)
(***************************************************************************)
Err(message, origin) == [message |-> message, origin |-> origin, statusCode |-> 0]
NoError == Err("", "none")

MsgEmailUnconfigured == "Resend API key is not configured"
MsgSmsUnconfigured   == "Twilio is not fully configured"
MsgFallback          == "Failed to send email"
MsgNoResponse        == "No response from email service"
MsgNullData          == "Cannot read properties of null (reading 'message')"
MsgLoggerUndefined   == "logger is not defined"
MsgNullCustomData    == "Cannot read properties of null (reading 'buttonText')"
MsgReplaceUndefined  == "customData.messageTemplate.replace is not a function"

\* messages of the exceptions the HTTP clients raise
RawTimeout   == "timeout of 10000ms exceeded"
RawSetup     == "Invalid URL"
RawHttpError == "Request failed with status code"
ProviderMessage == "Invalid to field"

(***************************************************************************)
(* How a provider call settles.  data is the shape of the body of an HTTP  *)
(* error response: an object with a message, an object without one, an     *)
(* empty body (an empty string in axios) or a JSON null.                *)
(***************************************************************************)
Settled(kind, status, data, message) ==
    [kind |-> kind, status |-> status, data |-> data, message |-> message]
NoOutcome == Settled("none", 0, "none", "")

HttpErrorStatuses == {422, 500}
DataShapes == {"message", "object", "empty", "null"}

AxiosOutcomes ==
    {Settled("ack", 200, "object", "")}
    \cup { Settled("http", s, d, RawHttpError) : s \in HttpErrorStatuses, d \in DataShapes }
    \cup {Settled("noResponse", 0, "none", RawTimeout)}
    \cup {Settled("setup", 0, "none", RawSetup)}

TwilioOutcomes ==
    {Settled("ack", 201, "object", "")}
    \cup { Settled("http", s, "message", ProviderMessage) : s \in HttpErrorStatuses }
    \cup {Settled("noResponse", 0, "none", RawTimeout)}

(***************************************************************************)
(* Responses                                                               *)
(***************************************************************************)
Response(status, kind, errors, message, stack) ==
    [status |-> status, kind |-> kind, errors |-> errors,
     message |-> message, stack |-> stack]
NoResponse == Response(0, "none", {}, "", "none")

\* res.status(400).json({ success: false, errors: errors.array() })
ValidationFailed(errors) == Response(400, "errors", errors, "", "none")

\* res.status(200).json({ success: true, message, data: result })
Sent == Response(200, "data", {}, "", "none")

\* middleware/error-handler.js
errorHandler(err) ==
    LET statusCode == IF err.statusCode # 0 THEN err.statusCode ELSE 500
        message == IF err.message # "" THEN err.message ELSE "Internal Server Error"
        stack == IF nodeEnv = "development" THEN err.origin ELSE "none"
    IN  Response(statusCode, "error", {}, message, stack)

(***************************************************************************)
(* services/email-service.js, services/sms-service.js                      *)
(***************************************************************************)
\* EmailService.sendEmail: if (!this.apiKey) throw ...
EmailConfigured == apiKey

\* SmsService constructor: the client exists when both credentials do
client == accountSid /\ authToken

\* SmsService.sendReviewRequest / sendTestSms:
\* if (!this.client || !this.fromNumber) throw ...
SmsConfigured == client /\ fromNumber

\* The catch block of EmailService.sendEmail, for a rejected axios.post
SendEmailCatch(o) ==
    IF o.kind = "http"
    THEN IF o.data = "null"
         THEN Err(MsgNullData, "runtime")
         ELSE IF o.data = "message"
              THEN Err(ProviderMessage, "service")
              ELSE Err(MsgFallback, "service")
    ELSE IF o.kind = "noResponse"
         THEN Err(MsgNoResponse, "service")
         ELSE Err(o.message, "transport")

\* The catch block of SmsService.sendReviewRequest / sendTestSms: throw error
SendSmsCatch(o) == Err(o.message, "transport")

(***************************************************************************)
(* Route handlers.  A handler runs from the arrival of the request to its  *)
(* first await of a provider call, and from the settling of that call to   *)
(* the response.                                                           *)
(***************************************************************************)
Idle == pc \in {"idle", "done", "unhandled"}

\* return res.status(400).json(...)
Reject(errors) ==
    /\ pc' = "done"
    /\ res' = ValidationFailed(errors)
    /\ thrown' = NoError
    /\ providerCalls' = 0
    /\ rendered' = FALSE

\* catch (error) { next(error) } and the error handler
NextError(err) ==
    /\ pc' = "done"
    /\ thrown' = err
    /\ res' = errorHandler(err)

\* res.status(200).json(...)
Succeed ==
    /\ pc' = "done"
    /\ thrown' = NoError
    /\ res' = Sent

\* The catch block of POST /api/email/feedback-notification names a logger
\* the module never imports: the handler's promise rejects with a
\* ReferenceError.  The router either drops the rejection (no response is
\* sent) or passes it to the error handler.
FeedbackCatch(err) ==
    /\ thrown' = err
    /\ \/ pc' = "unhandled" /\ res' = NoResponse
       \/ pc' = "done" /\ res' = errorHandler(Err(MsgLoggerUndefined, "runtime"))

\* generateReviewRequestHtml reads customData.buttonText: its default
\* value {} stands in for a missing customData only, not for null
HtmlThrows(f) == f.route = "emailReview" /\ f.customData = NullData

\* generateReviewRequestMessage calls replace on whatever messageTemplate is
MessageThrows(f) == f.route = "smsReview" /\ f.customData = NumericTemplate

\* sendReviewRequest / sendTestEmail / sendFeedbackNotification: the HTML
\* content is generated, then emailService.sendEmail(emailData) runs up to
\* its await
CallSendEmail ==
    /\ rendered' = TRUE
    /\ IF HtmlThrows(req')
       THEN /\ providerCalls' = 0
            /\ NextError(Err(MsgNullCustomData, "runtime"))
       ELSE IF EmailConfigured
            THEN /\ providerCalls' = 1
                 /\ pc' = "awaitEmail"
                 /\ thrown' = NoError
                 /\ res' = NoResponse
            ELSE /\ providerCalls' = 0
                 /\ IF req'.route = "emailFeedback"
                    THEN FeedbackCatch(Err(MsgEmailUnconfigured, "service"))
                    ELSE NextError(Err(MsgEmailUnconfigured, "service"))

\* smsService.sendReviewRequest / sendTestSms up to its await
CallSendSms ==
    IF SmsConfigured
    THEN /\ rendered' = (req'.route = "smsReview")
         /\ IF MessageThrows(req')
            THEN /\ providerCalls' = 0
                 /\ NextError(Err(MsgReplaceUndefined, "runtime"))
            ELSE /\ providerCalls' = 1
                 /\ pc' = "awaitSms"
                 /\ thrown' = NoError
                 /\ res' = NoResponse
    ELSE /\ rendered' = FALSE
         /\ providerCalls' = 0
         /\ NextError(Err(MsgSmsUnconfigured, "service"))

Arrive(f) ==
    /\ Idle
    /\ handled < MaxRequests
    /\ handled' = handled + 1
    /\ req' = f
    /\ outcome' = NoOutcome
    /\ UNCHANGED <<healthRes, textVars, configVars, keepAliveVars>>

PostEmailReviewRequest ==
    \E f \in EmailReviewBodies :
        /\ Arrive(f)
        /\ IF EmailReviewErrors(f) # {}
           THEN Reject(EmailReviewErrors(f))
           ELSE CallSendEmail

PostEmailTest ==
    \E f \in EmailTestBodies :
        /\ Arrive(f)
        /\ IF EmailTestErrors(f) # {}
           THEN Reject(EmailTestErrors(f))
           ELSE CallSendEmail

PostFeedbackNotification ==
    \E f \in FeedbackBodies :
        /\ Arrive(f)
        /\ IF FeedbackErrors(f) # {}
           THEN Reject(FeedbackErrors(f))
           ELSE CallSendEmail

PostSmsReviewRequest ==
    \E f \in SmsReviewBodies :
        /\ Arrive(f)
        /\ IF SmsReviewErrors(f) # {}
           THEN Reject(SmsReviewErrors(f))
           ELSE CallSendSms

PostSmsTest ==
    \E f \in SmsTestBodies :
        /\ Arrive(f)
        /\ IF SmsTestErrors(f) # {}
           THEN Reject(SmsTestErrors(f))
           ELSE CallSendSms

\* AxiosPostSettles with a second attempt when no response was received
AxiosPostSettles_Retry ==
    /\ pc = "awaitEmail"
    /\ \E o \in AxiosOutcomes :
        IF o.kind = "noResponse" /\ providerCalls < 2
        THEN /\ providerCalls' = providerCalls + 1
             /\ UNCHANGED <<pc, outcome, thrown, res>>
        ELSE /\ outcome' = o
             /\ providerCalls' = providerCalls
             /\ IF o.kind = "ack"
                THEN Succeed
                ELSE IF req.route = "emailFeedback"
                     THEN FeedbackCatch(SendEmailCatch(o))
                     ELSE NextError(SendEmailCatch(o))
    /\ UNCHANGED <<healthRes, textVars, configVars, keepAliveVars, req, handled, rendered>>

\* await axios.post(...) settles: sendEmail returns response.data or its
\* catch block throws, and the route answers
AxiosPostSettles ==
    /\ pc = "awaitEmail"
    /\ \E o \in AxiosOutcomes :
        /\ outcome' = o
        /\ IF o.kind = "ack"
           THEN Succeed
           ELSE IF req.route = "emailFeedback"
                THEN FeedbackCatch(SendEmailCatch(o))
                ELSE NextError(SendEmailCatch(o))
    /\ UNCHANGED <<healthRes, textVars, configVars, keepAliveVars, req, providerCalls, handled,
                   rendered>>

\* TwilioCreateSettles that counts a failed provider call as a failed
\* self-ping
TwilioCreateSettles_CountsFailure ==
    /\ pc = "awaitSms"
    /\ \E o \in TwilioOutcomes :
        /\ outcome' = o
        /\ IF o.kind = "ack"
           THEN Succeed /\ stats' = stats
           ELSE /\ NextError(SendSmsCatch(o))
                /\ stats' = [stats EXCEPT !.failedPings = @ + 1]
    /\ UNCHANGED <<healthRes, textVars, configVars, req, providerCalls, handled,
                   rendered, enabled, cronTasks, warmups, inflight, minute,
                   elapsed, startCalls, snapshot, completedTicks,
                   failedTicks, uncaught, lastCronAt, cronGap>>

\* await this.client.messages.create(...) settles
TwilioCreateSettles ==
    /\ pc = "awaitSms"
    /\ \E o \in TwilioOutcomes :
        /\ outcome' = o
        /\ IF o.kind = "ack"
           THEN Succeed
           ELSE NextError(SendSmsCatch(o))
    /\ UNCHANGED <<healthRes, textVars, configVars, keepAliveVars, req, providerCalls, handled,
                   rendered>>

(***************************************************************************)
(* server-keepalive.js                                                     *)
(***************************************************************************)
\* lastPingTime: null
Never == -1

\* ServerKeepAlive constructor: this.stats = {...}
InitialStats ==
    [totalPings |-> 0, successfulPings |-> 0, failedPings |-> 0,
     lastPingTime |-> Never, startTime |-> 0]

\* fewer than two runs of the recurring task so far
NoGap == 0

\* cron expression '*/14 * * * *': the minutes of the hour the task runs at
CronStep == 14
CronMatches(m) == m % CronStep = 0

\* performSelfPing up to its await: totalPings++, lastPingTime = new Date()
PerformSelfPingBegin(s, now) ==
    [s EXCEPT !.totalPings = @ + 1, !.lastPingTime = now]

\* the callbacks of n recurring tasks run one after the other
RECURSIVE RunCallbacks(_, _, _)
RunCallbacks(s, n, now) ==
    IF n = 0 THEN s ELSE RunCallbacks(PerformSelfPingBegin(s, now), n - 1, now)

\* how the axios.get of a self-ping settles: resolved with status 200,
\* resolved with another 2xx status, or rejected (other status, timeout,
\* network failure)
PingOutcomes == {"status200", "status2xx", "rejected"}

\* performSelfPing that counts a rejected check as a success as well
PerformSelfPingEnd_CountsBoth(s, o) ==
    IF o = "status200"
    THEN [s EXCEPT !.successfulPings = @ + 1]
    ELSE IF o = "rejected"
         THEN [s EXCEPT !.failedPings = @ + 1, !.successfulPings = @ + 1]
         ELSE s

\* performSelfPing after its await
PerformSelfPingEnd(s, o) ==
    IF o = "status200"
    THEN [s EXCEPT !.successfulPings = @ + 1]
    ELSE IF o = "rejected"
         THEN [s EXCEPT !.failedPings = @ + 1]
         ELSE s

\* start without the check of this.enabled
Start_AlwaysEnabled ==
    /\ startCalls < MaxStarts
    /\ startCalls' = startCalls + 1
    /\ cronTasks' = cronTasks + 1
    /\ warmups' = warmups + 1
    /\ UNCHANGED <<healthRes, textVars, configVars, dispatchVars, enabled, stats, inflight, minute,
                   elapsed, snapshot, completedTicks, failedTicks, uncaught,
                   lastCronAt, cronGap>>

\* start without the warm-up timeout
Start_NoWarmup ==
    /\ startCalls < MaxStarts
    /\ startCalls' = startCalls + 1
    /\ IF ~enabled
       THEN UNCHANGED cronTasks
       ELSE cronTasks' = cronTasks + 1
    /\ UNCHANGED <<healthRes, textVars, configVars, dispatchVars, enabled,
                   stats, warmups, inflight, minute, elapsed, snapshot,
                   completedTicks, failedTicks, uncaught, lastCronAt,
                   cronGap>>

\* ServerKeepAlive.start
Start ==
    /\ startCalls < MaxStarts
    /\ startCalls' = startCalls + 1
    /\ IF ~enabled
       THEN UNCHANGED <<cronTasks, warmups>>
       ELSE /\ cronTasks' = cronTasks + 1
            /\ warmups' = warmups + 1
    /\ UNCHANGED <<healthRes, textVars, configVars, dispatchVars, enabled, stats, inflight, minute,
                   elapsed, snapshot, completedTicks, failedTicks, uncaught,
                   lastCronAt, cronGap>>

\* setTimeout(() => { this.performSelfPing() }, 5000) fires
WarmupFires ==
    /\ warmups > 0
    /\ warmups' = warmups - 1
    /\ stats' = PerformSelfPingBegin(stats, elapsed)
    /\ inflight' = inflight + 1
    /\ UNCHANGED <<healthRes, textVars, configVars, dispatchVars, enabled, cronTasks, minute,
                   elapsed, startCalls, snapshot, completedTicks, failedTicks,
                   uncaught, lastCronAt, cronGap>>

\* the wall clock reaches a minute the cron expression matches: every
\* registered task runs its callback
CronFires ==
    /\ elapsed < MaxElapsed
    /\ CronMatches((minute + 1) % 60)
    /\ cronTasks > 0
    /\ minute' = (minute + 1) % 60
    /\ elapsed' = elapsed + 1
    /\ stats' = RunCallbacks(stats, cronTasks, elapsed')
    /\ inflight' = inflight + cronTasks
    /\ lastCronAt' = elapsed'
    /\ cronGap' = IF lastCronAt = Never THEN cronGap ELSE elapsed' - lastCronAt
    /\ UNCHANGED <<healthRes, textVars, configVars, dispatchVars, enabled, cronTasks, warmups,
                   startCalls, snapshot, completedTicks, failedTicks,
                   uncaught>>

\* the wall clock reaches a minute at which no task runs
MinutePasses ==
    /\ elapsed < MaxElapsed
    /\ ~(CronMatches((minute + 1) % 60) /\ cronTasks > 0)
    /\ minute' = (minute + 1) % 60
    /\ elapsed' = elapsed + 1
    /\ UNCHANGED <<healthRes, textVars, configVars, dispatchVars, enabled, stats, cronTasks,
                   warmups, inflight, startCalls, snapshot, completedTicks,
                   failedTicks, uncaught, lastCronAt, cronGap>>

\* performSelfPing without its try / catch: a rejected axios.get rejects
\* the promise the timer callback holds
SelfPingSettles_NoCatch ==
    /\ inflight > 0
    /\ inflight' = inflight - 1
    /\ \E o \in PingOutcomes :
        /\ stats' = IF o = "status200"
                    THEN [stats EXCEPT !.successfulPings = @ + 1]
                    ELSE stats
        /\ failedTicks' = IF o = "rejected" THEN failedTicks + 1 ELSE failedTicks
        /\ uncaught' = IF o = "rejected" THEN uncaught + 1 ELSE uncaught
    /\ completedTicks' = completedTicks + 1
    /\ UNCHANGED <<healthRes, textVars, configVars, dispatchVars, enabled, cronTasks, warmups,
                   minute, elapsed, startCalls, snapshot, lastCronAt,
                   cronGap>>

\* the axios.get of one self-ping settles and performSelfPing returns: the
\* catch block takes the rejection and throws nothing, so the promise the
\* cron callback awaits and the warm-up callback drops is fulfilled
SelfPingSettles ==
    /\ inflight > 0
    /\ inflight' = inflight - 1
    /\ \E o \in PingOutcomes :
        /\ stats' = PerformSelfPingEnd(stats, o)
        /\ failedTicks' = IF o = "rejected" THEN failedTicks + 1 ELSE failedTicks
    /\ completedTicks' = completedTicks + 1
    /\ uncaught' = uncaught
    /\ UNCHANGED <<healthRes, textVars, configVars, dispatchVars, enabled, cronTasks, warmups,
                   minute, elapsed, startCalls, snapshot, lastCronAt,
                   cronGap>>

\* ServerKeepAlive.getStats, as GET /health/keepalive and GET /health call it
Snapshot(taken, s) ==
    [taken |-> taken, totalPings |-> s.totalPings,
     successfulPings |-> s.successfulPings, failedPings |-> s.failedPings,
     lastPingTime |-> s.lastPingTime, enabled |-> enabled]

GetStats ==
    /\ snapshot' = Snapshot(TRUE, stats)
    /\ UNCHANGED <<healthRes, textVars, configVars, dispatchVars, enabled, stats, cronTasks,
                   warmups, inflight, minute, elapsed, startCalls,
                   completedTicks, failedTicks, uncaught, lastCronAt,
                   cronGap>>

(***************************************************************************)
(* routes/health.js: the routes that report the keep-alive counters        *)
(***************************************************************************)
HealthResponse(route, status, body) ==
    [route |-> route, status |-> status, keepAlive |-> body]
NoHealthResponse == HealthResponse("none", 0, Snapshot(FALSE, InitialStats))

\* GET /health: the handler spreads keepAlive.getHealthInfo(), a method
\* ServerKeepAlive does not define; the TypeError leaves the handler and the
\* error handler answers
GetHealth ==
    /\ healthRes' = HealthResponse("/health", 500,
                                   Snapshot(FALSE, InitialStats))
    /\ UNCHANGED <<textVars, configVars, dispatchVars, keepAliveVars>>

\* GET /health/detailed: the same call inside try / catch
GetHealthDetailed ==
    /\ healthRes' = HealthResponse("/health/detailed", 500,
                                   Snapshot(FALSE, InitialStats))
    /\ UNCHANGED <<textVars, configVars, dispatchVars, keepAliveVars>>

\* GET /health/keepalive: keepAlive.getStats()
GetHealthKeepalive ==
    /\ healthRes' = HealthResponse("/health/keepalive", 200,
                                   Snapshot(TRUE, stats))
    /\ UNCHANGED <<textVars, configVars, dispatchVars, keepAliveVars>>

\* POST /health/wakeup: the same call inside a setTimeout callback, where
\* nothing catches the TypeError and no response is sent; the uncaught
\* exception ends the process, so the route is served once
PostHealthWakeup ==
    /\ uncaught = 0
    /\ healthRes' = HealthResponse("/health/wakeup", 0,
                                   Snapshot(FALSE, InitialStats))
    /\ uncaught' = uncaught + 1
    /\ UNCHANGED <<textVars, configVars, dispatchVars, enabled, stats,
                   cronTasks, warmups, inflight, minute, elapsed, startCalls,
                   snapshot, completedTicks, failedTicks, lastCronAt,
                   cronGap>>

InitKeepAlive ==
    /\ enabled = (nodeEnv = "production")
    /\ stats = InitialStats
    /\ cronTasks = 0
    /\ warmups = 0
    /\ inflight = 0
    /\ elapsed = 0
    /\ startCalls = 0
    /\ snapshot = Snapshot(FALSE, InitialStats)
    /\ completedTicks = 0
    /\ failedTicks = 0
    /\ uncaught = 0
    /\ lastCronAt = Never
    /\ cronGap = NoGap

(***************************************************************************)
(* utils/email-templates.js: escapeHtml.  A string is the sequence of its  *)
(* characters.                                                             *)
(***************************************************************************)
MaxLen == 4
MaxEscapes == 2

\* a character outside ASCII
EAcute == "e-acute"

\* the replacement strings of escapeHtml
AmpEntity == <<"&", "a", "m", "p", ";">>
LtEntity == <<"&", "l", "t", ";">>
GtEntity == <<"&", "g", "t", ";">>
QuotEntity == <<"&", "q", "u", "o", "t", ";">>
AposEntity == <<"&", "#", "0", "3", "9", ";">>

\* String.prototype.replace with a one-character global pattern
RECURSIVE ReplaceAll(_, _, _)
ReplaceAll(text, ch, replacement) ==
    IF text = <<>>
    THEN <<>>
    ELSE (IF Head(text) = ch THEN replacement ELSE <<Head(text)>>)
            \o ReplaceAll(Tail(text), ch, replacement)

\* escapeHtml with the ampersand replaced last
escapeHtml_AmpLast(text) ==
    ReplaceAll(
        ReplaceAll(
            ReplaceAll(
                ReplaceAll(
                    ReplaceAll(text, "<", LtEntity),
                    ">", GtEntity),
                "\"", QuotEntity),
            "'", AposEntity),
        "&", AmpEntity)

\* escapeHtml without the replacement of the apostrophe
escapeHtml_NoApos(text) ==
    ReplaceAll(
        ReplaceAll(
            ReplaceAll(
                ReplaceAll(text, "&", AmpEntity),
                "<", LtEntity),
            ">", GtEntity),
        "\"", QuotEntity)

\* escapeHtml: the five replace calls in the order of the source
escapeHtml(text) ==
    ReplaceAll(
        ReplaceAll(
            ReplaceAll(
                ReplaceAll(
                    ReplaceAll(text, "&", AmpEntity),
                    "<", LtEntity),
                ">", GtEntity),
            "\"", QuotEntity),
        "'", AposEntity)

\* the characters the inputs are made of
Chars == {"&", "<", ">", "\"", "'", ";", "a", EAcute}

RECURSIVE TextsOfLen(_)
TextsOfLen(n) ==
    IF n = 0
    THEN {<<>>}
    ELSE {<<c>> \o t : c \in Chars, t \in TextsOfLen(n - 1)}

Texts == UNION {TextsOfLen(n) : n \in 0..MaxLen}

\* no text function has been applied
InitText ==
    /\ healthRes = NoHealthResponse
    /\ called = "none"
    /\ arg = <<>>
    /\ result = <<>>

\* escapeHtml(text), and escapeHtml applied to what it returned
EscapeHtml ==
    /\ called \in {"input", "escapeHtml"}
    /\ Len(result) < MaxEscapes
    /\ called' = "escapeHtml"
    /\ result' = Append(result,
                        escapeHtml(IF result = <<>> THEN arg
                                   ELSE result[Len(result)]))
    /\ UNCHANGED <<arg, healthRes, configVars, dispatchVars, keepAliveVars>>

(***************************************************************************)
(* utils/email-templates.js and services/feedback-service.js: the HTML     *)
(* templates.  The HTML a template returns is the sequence of its pieces   *)
(* in the order of the template literal: the literal text between two      *)
(* interpolations, and the text each interpolation inserts, with the       *)
(* expression it comes from.                                               *)
(***************************************************************************)
\* customData carries no buttonText
Undefined == <<Absent>>

Piece(from, text) == [from |-> from, text |-> text]
Literal(text) == Piece("template", <<text>>)

\* new Date().getFullYear()
CurrentYear == Piece("currentYear", <<"2", "0", "2", "5">>)

\* const buttonText = customData.buttonText || 'Leave a Review'
ButtonText(customData) ==
    IF customData.buttonText = Undefined \/ customData.buttonText = <<>>
    THEN Literal("Leave a Review")
    ELSE Piece("customData.buttonText", customData.buttonText)

\* generateReviewRequestHtml
generateReviewRequestHtml(customerName, businessName, reviewLink, customData) ==
    LET safeCustomerName == Piece("customerName", escapeHtml(customerName))
        safeBusinessName == Piece("businessName", escapeHtml(businessName))
        safeReviewLink == Piece("reviewLink", escapeHtml(reviewLink))
        buttonText == ButtonText(customData)
    IN << Literal("<p>Hello "), safeCustomerName,
          Literal(",</p><p>Thank you for choosing "), safeBusinessName,
          Literal(". We hope ... <a href=\""), safeReviewLink,
          Literal("\" class=\"button\">"), buttonText,
          Literal("</a> ... Best regards,<br>The "), safeBusinessName,
          Literal(" Team</p> ... you interacted with "), safeBusinessName,
          Literal(".</p><p>(c) "), CurrentYear, Literal(" "),
          safeBusinessName, Literal(". All rights reserved.</p>") >>

\* String(rating) for a number given in tenths
Digit(d) == <<"0", "1", "2", "3", "4", "5", "6", "7", "8", "9">>[d + 1]
NumberToString(tenths) ==
    IF tenths % 10 = 0
    THEN <<Digit(tenths \div 10)>>
    ELSE <<Digit(tenths \div 10), ".", Digit(tenths % 10)>>

\* for (let i = 1; i <= 5; i++) starsHtml += i <= rating ? filled : empty
StarsHtml(rating) ==
    [i \in 1..5 |-> IF i * 10 <= rating.tenths THEN "filled" ELSE "empty"]

\* generateFeedbackEmailHtml with the customer's name interpolated as given
generateFeedbackEmailHtml_RawName(businessName, rating, feedback, customerName) ==
    << Literal("<p>Hello "), Piece("businessName", escapeHtml(businessName)),
       Literal(" Team,</p> ... <strong>Customer:</strong> "),
       Piece("customerName", customerName),
       Literal("</p> ... <strong>Rating:</strong> "),
       Piece("starsHtml", StarsHtml(rating)), Literal(" ("),
       Piece("rating", NumberToString(rating.tenths)),
       Literal("/5) ... <div class=\"feedback-box\">"),
       Piece("feedback", escapeHtml(feedback)),
       Literal("</div> ... (c) "), CurrentYear,
       Literal(" RevBoost. All rights reserved.</p>") >>

\* FeedbackService.generateFeedbackEmailHtml
generateFeedbackEmailHtml(businessName, rating, feedback, customerName) ==
    LET safeBusinessName == Piece("businessName", escapeHtml(businessName))
        safeFeedback == Piece("feedback", escapeHtml(feedback))
        safeCustomerName == Piece("customerName", escapeHtml(customerName))
    IN << Literal("<p>Hello "), safeBusinessName,
          Literal(" Team,</p> ... <strong>Customer:</strong> "),
          safeCustomerName,
          Literal("</p> ... <strong>Rating:</strong> "),
          Piece("starsHtml", StarsHtml(rating)), Literal(" ("),
          Piece("rating", NumberToString(rating.tenths)),
          Literal("/5) ... <div class=\"feedback-box\">"), safeFeedback,
          Literal("</div> ... (c) "), CurrentYear,
          Literal(" RevBoost. All rights reserved.</p>") >>

\* what the callers pass to the templates
ScriptTag == <<"<", "s", "c", "r", "i", "p", "t", ">">>
RenderNames == {<<"J">>, ScriptTag}
RenderBusinesses == {<<"A">>, <<"A", "&", "B">>}
RenderLinks == {<<"u">>, <<"u", "\"", ">">>}
RenderButtons == {Undefined, <<>>, <<"O", "K">>, <<"<", "b", ">">>, <<"\"">>}
RenderFeedbacks == {<<"b", "a", "d">>, <<"<", "'">>}
RenderRatings == {Rating(10), Rating(25), Rating(50)}

RenderArgs ==
    [customerName : RenderNames, businessName : RenderBusinesses,
     reviewLink : RenderLinks, customData : [buttonText : RenderButtons],
     feedback : RenderFeedbacks, rating : RenderRatings]

\* EmailService.sendReviewRequest builds htmlContent
GenerateReviewRequestHtml ==
    /\ called = "args"
    /\ called' = "generateReviewRequestHtml"
    /\ result' = <<generateReviewRequestHtml(arg.customerName,
                      arg.businessName, arg.reviewLink, arg.customData)>>
    /\ UNCHANGED <<arg, healthRes, configVars, dispatchVars, keepAliveVars>>

\* FeedbackService.sendFeedbackNotification builds htmlContent
GenerateFeedbackEmailHtml ==
    /\ called = "args"
    /\ called' = "generateFeedbackEmailHtml"
    /\ result' = <<generateFeedbackEmailHtml(arg.businessName, arg.rating,
                      arg.feedback, arg.customerName)>>
    /\ UNCHANGED <<arg, healthRes, configVars, dispatchVars, keepAliveVars>>

(***************************************************************************)
(* services/sms-service.js: generateReviewRequestMessage.  A message is    *)
(* the sequence of its parts: a placeholder, a replacement pattern and a   *)
(* run of other text are one part each.                                    *)
(***************************************************************************)
MaxTemplateLen == 3

Placeholders == {"{{customerName}}", "{{businessName}}", "{{reviewLink}}"}

\* the replacement patterns of String.prototype.replace: dollar dollar
\* inserts a dollar sign, dollar ampersand the matched substring, dollar
\* backtick the text before the match, dollar apostrophe the text after it
DollarDollar == "$$"
DollarAmp == "$&"
DollarBefore == "$(backtick)"
DollarAfter == "$'"

\* the replacement string of String.prototype.replace
RECURSIVE Expand(_, _, _, _)
Expand(replacement, matched, before, after) ==
    IF replacement = <<>>
    THEN <<>>
    ELSE LET part == Head(replacement)
             inserted == CASE part = DollarDollar -> <<"$">>
                           [] part = DollarAmp -> <<matched>>
                           [] part = DollarBefore -> before
                           [] part = DollarAfter -> after
                           [] OTHER -> <<part>>
         IN inserted \o Expand(Tail(replacement), matched, before, after)

\* String.prototype.replace with a string pattern: the first occurrence only
Replace(text, pattern, replacement) ==
    LET found == {i \in 1..Len(text) : text[i] = pattern}
    IN IF found = {}
       THEN text
       ELSE LET i == CHOOSE k \in found : \A j \in found : k <= j
                before == SubSeq(text, 1, i - 1)
                after == SubSeq(text, i + 1, Len(text))
            IN before \o Expand(replacement, pattern, before, after) \o after

\* the default message format
DefaultMessage(customerName, businessName, reviewLink) ==
    <<"Hi ">> \o customerName \o <<", thank you for choosing ">>
        \o businessName
        \o <<"! We'd love to hear your feedback. Please share your experience here: ">>
        \o reviewLink

\* customData && customData.messageTemplate
HasTemplate(customData) ==
    /\ customData.defined
    /\ customData.messageTemplate # Undefined
    /\ customData.messageTemplate # <<>>

\* generateReviewRequestMessage that also removes a placeholder it does not
\* know
generateReviewRequestMessage_DropsUnknown(customerName, businessName, reviewLink, customData) ==
    IF HasTemplate(customData)
    THEN Replace(
            Replace(
                Replace(
                    Replace(customData.messageTemplate,
                            "{{customerName}}", customerName),
                    "{{businessName}}", businessName),
                "{{reviewLink}}", reviewLink),
            "{{foo}}", <<>>)
    ELSE DefaultMessage(customerName, businessName, reviewLink)

\* SmsService.generateReviewRequestMessage
generateReviewRequestMessage(customerName, businessName, reviewLink, customData) ==
    IF HasTemplate(customData)
    THEN Replace(
            Replace(
                Replace(customData.messageTemplate,
                        "{{customerName}}", customerName),
                "{{businessName}}", businessName),
            "{{reviewLink}}", reviewLink)
    ELSE DefaultMessage(customerName, businessName, reviewLink)

\* the parts the templates are made of
TemplateParts == Placeholders \cup {"{{foo}}", "Dear "}

RECURSIVE TemplatesOfLen(_)
TemplatesOfLen(n) ==
    IF n = 0
    THEN {<<>>}
    ELSE {<<part>> \o t : part \in TemplateParts, t \in TemplatesOfLen(n - 1)}

MessageTemplates == UNION {TemplatesOfLen(n) : n \in 0..MaxTemplateLen}

CustomDatas ==
    {[defined |-> FALSE, messageTemplate |-> Undefined],
     [defined |-> TRUE, messageTemplate |-> Undefined]}
    \cup {[defined |-> TRUE, messageTemplate |-> t] : t \in MessageTemplates}

SmsNames ==
    {<<"Jane">>, <<DollarAmp>>, <<DollarBefore, "!">>, <<"{{businessName}}">>}
SmsBusinesses == {<<"Acme">>}
SmsLinks == {<<"https://g.co/r">>, <<DollarAfter>>}

SmsArgs ==
    [customerName : SmsNames, businessName : SmsBusinesses,
     reviewLink : SmsLinks, customData : CustomDatas]

\* SmsService.sendReviewRequest builds the message body
GenerateReviewRequestMessage ==
    /\ called = "args"
    /\ called' = "generateReviewRequestMessage"
    /\ result' = <<generateReviewRequestMessage(arg.customerName,
                      arg.businessName, arg.reviewLink, arg.customData)>>
    /\ UNCHANGED <<arg, healthRes, configVars, dispatchVars, keepAliveVars>>

(***************************************************************************)
(* The dispatch specification                                              *)
(***************************************************************************)
InitConfig ==
    /\ nodeEnv \in NodeEnvs
    /\ apiKey \in BOOLEAN
    /\ accountSid \in BOOLEAN
    /\ authToken \in BOOLEAN
    /\ fromNumber \in BOOLEAN

InitDispatch ==
    /\ req = NoReq
    /\ pc = "idle"
    /\ providerCalls = 0
    /\ outcome = NoOutcome
    /\ thrown = NoError
    /\ res = NoResponse
    /\ handled = 0
    /\ rendered = FALSE

Init ==
    /\ InitConfig
    /\ InitDispatch
    /\ InitKeepAlive
    /\ InitText
    /\ minute = 0

Next ==
    \/ PostEmailReviewRequest
    \/ PostEmailTest
    \/ PostFeedbackNotification
    \/ PostSmsReviewRequest
    \/ PostSmsTest
    \/ AxiosPostSettles
    \/ TwilioCreateSettles

Spec == Init /\ [][Next]_vars

(***************************************************************************)
(* The keep-alive specification: the process starts at any minute of the   *)
(* hour.  The keep-alive service reads no provider credential.             *)
(***************************************************************************)
InitKA ==
    /\ nodeEnv \in NodeEnvs
    /\ apiKey = TRUE
    /\ accountSid = TRUE
    /\ authToken = TRUE
    /\ fromNumber = TRUE
    /\ InitDispatch
    /\ InitKeepAlive
    /\ InitText
    /\ minute \in 0..59

NextKA ==
    \/ Start
    \/ WarmupFires
    \/ CronFires
    \/ MinutePasses
    \/ SelfPingSettles
    \/ GetStats

SpecKA == InitKA /\ [][NextKA]_vars

(***************************************************************************)
(* The sanitizer specification: escapeHtml applied to any text of at most  *)
(* MaxLen characters, and again to its own output.                         *)
(***************************************************************************)
InitIdle ==
    /\ nodeEnv = "production"
    /\ apiKey = TRUE
    /\ accountSid = TRUE
    /\ authToken = TRUE
    /\ fromNumber = TRUE
    /\ InitDispatch
    /\ InitKeepAlive
    /\ minute = 0

InitEscape ==
    /\ InitIdle
    /\ healthRes = NoHealthResponse
    /\ called = "input"
    /\ arg \in Texts
    /\ result = <<>>

NextEscape == EscapeHtml

SpecEscape == InitEscape /\ [][NextEscape]_vars

(***************************************************************************)
(* The template specification: one render of either email template.        *)
(***************************************************************************)
InitRender ==
    /\ InitIdle
    /\ healthRes = NoHealthResponse
    /\ called = "args"
    /\ arg \in RenderArgs
    /\ result = <<>>

NextRender ==
    \/ GenerateReviewRequestHtml
    \/ GenerateFeedbackEmailHtml

SpecRender == InitRender /\ [][NextRender]_vars

(***************************************************************************)
(* The SMS template specification: one render of the SMS body.             *)
(***************************************************************************)
InitSms ==
    /\ InitIdle
    /\ healthRes = NoHealthResponse
    /\ called = "args"
    /\ arg \in SmsArgs
    /\ result = <<>>

NextSms == GenerateReviewRequestMessage

SpecSms == InitSms /\ [][NextSms]_vars

(***************************************************************************)
(* The server specification: the routes and the keep-alive service in one  *)
(* process, fully configured and in production mode, over the minute in    *)
(* which the recurring task becomes due.  A request leaves nothing behind  *)
(* for the next one, so the behaviours follow the last request only.       *)
(***************************************************************************)
InitServer ==
    /\ nodeEnv = "production"
    /\ apiKey = TRUE
    /\ accountSid = TRUE
    /\ authToken = TRUE
    /\ fromNumber = TRUE
    /\ req = NoReq
    /\ pc = "idle"
    /\ providerCalls = 0
    /\ outcome = NoOutcome
    /\ thrown = NoError
    /\ res = NoResponse
    /\ rendered = FALSE
    /\ handled = MaxRequests - 1
    /\ InitKeepAlive
    /\ InitText
    /\ minute = CronStep - 1

NextServer ==
    \/ PostEmailReviewRequest
    \/ PostEmailTest
    \/ PostFeedbackNotification
    \/ PostSmsReviewRequest
    \/ PostSmsTest
    \/ AxiosPostSettles
    \/ TwilioCreateSettles
    \/ Start
    \/ WarmupFires
    \/ CronFires
    \/ SelfPingSettles

SpecServer == InitServer /\ [][NextServer]_vars

(***************************************************************************)
(* The health specification: the keep-alive service and the health routes  *)
(* in one process, over the minute in which the recurring task becomes     *)
(* due.                                                                    *)
(***************************************************************************)
InitHealth ==
    /\ nodeEnv \in NodeEnvs
    /\ apiKey = TRUE
    /\ accountSid = TRUE
    /\ authToken = TRUE
    /\ fromNumber = TRUE
    /\ InitDispatch
    /\ InitKeepAlive
    /\ InitText
    /\ minute = CronStep - 1

NextHealth ==
    \/ Start
    \/ WarmupFires
    \/ CronFires
    \/ SelfPingSettles
    \/ GetHealth
    \/ GetHealthDetailed
    \/ GetHealthKeepalive
    \/ PostHealthWakeup

SpecHealth == InitHealth /\ [][NextHealth]_vars

(***************************************************************************)
(* The keep-alive specification with its timers: a timeout that is pending *)
(* fires, and an axios.get that was issued settles (timeout: 30000).       *)
(***************************************************************************)
InitKALive ==
    /\ InitKA
    /\ nodeEnv = "production"

NextKALive ==
    \/ Start
    \/ WarmupFires
    \/ CronFires
    \/ MinutePasses
    \/ SelfPingSettles

SpecKALive ==
    /\ InitKALive
    /\ [][NextKALive]_vars
    /\ WF_vars(WarmupFires)
    /\ WF_vars(SelfPingSettles)

(***************************************************************************)
(* Properties of dispatch (specification Spec)                             *)
(***************************************************************************)
EmailRoutes == {"emailReview", "emailTest", "emailFeedback"}
SmsRoutes == {"smsReview", "smsTest"}
Awaiting == pc \in {"awaitEmail", "awaitSms"}

\* the request fails the structural validation of its route: malformed
\* recipient, missing required field, out-of-range rating or malformed link
StructurallyInvalid(f) ==
    \/ f.route \in EmailRoutes /\ ~IsEmail(f.toEmail)
    \/ f.route \in SmsRoutes /\ ~IsMobilePhone(f.phoneNumber)
    \/ /\ f.route \in {"emailReview", "smsReview"}
       /\ \/ ~NotEmpty(f.customerName)
          \/ ~NotEmpty(f.businessName)
          \/ ~IsURL(f.reviewLink)
    \/ f.route = "emailReview" /\ f.replyTo # Absent /\ ~IsEmail(f.replyTo)
    \/ /\ f.route = "emailFeedback"
       /\ \/ ~NotEmpty(f.businessId)
          \/ ~NotEmpty(f.businessName)
          \/ ~NotEmpty(f.feedback)
          \/ ~IsFloat(f.rating, 1, 5)

\* C1: a request whose structural validation fails is answered with the
\* validation failure (status 400 and the list of failing fields) and no
\* provider call is made for it.
C1_InvalidNeverReachesProvider ==
    (req.route # "none" /\ StructurallyInvalid(req)) =>
        /\ pc = "done"
        /\ res.status = 400
        /\ res.kind = "errors"
        /\ res.errors # {}
        /\ thrown = NoError
        /\ providerCalls = 0

C1_Witness ==
    /\ pc = "done"
    /\ req.route = "emailReview"
    /\ req.toEmail = "not-an-email"
    /\ req.reviewLink = "https://g.co/r"
    /\ res.status = 400
    /\ apiKey

\* the channel of the request lacks a credential its provider client needs
ChannelUnconfigured ==
    \/ req.route \in EmailRoutes /\ ~apiKey
    \/ req.route \in SmsRoutes /\ (~accountSid \/ ~authToken \/ ~fromNumber)

UnconfiguredMessage ==
    IF req.route \in EmailRoutes THEN MsgEmailUnconfigured ELSE MsgSmsUnconfigured

\* C2: on a channel whose provider client lacks a required credential,
\* every request that passed validation fails with the unconfigured error
\* of that channel and no call to the provider is made, for every route of
\* the channel.
C2_UnconfiguredFailsFast ==
    (req.route # "none" /\ ~StructurallyInvalid(req) /\ ChannelUnconfigured) =>
        /\ ~Awaiting
        /\ providerCalls = 0
        /\ outcome = NoOutcome
        /\ thrown = Err(UnconfiguredMessage, "service")

\* C3: a request that reaches the provider step makes exactly one provider
\* call, whatever the outcome: one call is made when the handler awaits the
\* provider, and the count is still one when the call has settled.
C3_ExactlyOneProviderCall ==
    /\ providerCalls <= 1
    /\ Awaiting => providerCalls = 1
    /\ outcome.kind # "none" => (providerCalls = 1 /\ ~Awaiting)

C3_Witness ==
    /\ outcome.kind = "noResponse"
    /\ req.route = "emailReview"
    /\ providerCalls = 1
    /\ pc = "done"
    /\ res.kind = "error"

\* C4: when the provider answers with a non-2xx response, the failure
\* carries the provider's status code, and the provider's message when the
\* response has one and the fallback message otherwise, for every shape of
\* the error response.
C4_RejectedCarriesStatusAndMessage ==
    (outcome.kind = "http") =>
        /\ thrown.statusCode = outcome.status
        /\ thrown.message =
              IF outcome.data = "message" THEN ProviderMessage ELSE MsgFallback

\* C5: when no response is received from the provider, the failure on
\* either channel is the classified no-response failure, not the error of
\* another kind nor the exception the HTTP client raised.
C5_NoResponseIsUnreachable ==
    (outcome.kind = "noResponse") => thrown = Err(MsgNoResponse, "service")

\* C6: for every failed provider call the response never carries the raw
\* exception of the HTTP client: neither its message nor its stack.
C6_NoRawExceptionInResponse ==
    (pc = "done" /\ outcome.kind \notin {"none", "ack"}) =>
        /\ res.message # outcome.message
        /\ res.stack # "transport"

(***************************************************************************)
(* Properties of the keep-alive service (specification SpecKA)             *)
(***************************************************************************)
\* C7: every tick increments totalPings and exactly one of successfulPings
\* and failedPings whatever its outcome: once all N started ticks have
\* completed, M of them failed, the counters are N, M and N - M.
C7_TickCountsAddUp ==
    (inflight = 0) =>
        /\ stats.totalPings = completedTicks
        /\ stats.failedPings = failedTicks
        /\ stats.successfulPings = completedTicks - failedTicks

\* C8: every snapshot getStats returns, also one taken while a tick awaits
\* its response, has totalPings = successfulPings + failedPings.
C8_SnapshotNeverPartial ==
    snapshot.taken =>
        snapshot.totalPings = snapshot.successfulPings + snapshot.failedPings

\* C9: start is idempotent: whatever the number of calls, at most one
\* recurring task is registered and at most one warm-up check is pending,
\* so a scheduled instant produces one tick.
C9_StartIdempotent ==
    /\ cronTasks <= 1
    /\ warmups <= 1

\* C10: outside production mode start schedules neither the recurring task
\* nor the warm-up check: no tick is ever performed, the counters stay 0 and
\* lastPingTime stays unset.
C10_DisabledNeverTicks ==
    (nodeEnv # "production") =>
        /\ cronTasks = 0
        /\ warmups = 0
        /\ inflight = 0
        /\ completedTicks = 0
        /\ stats.totalPings = 0
        /\ stats.successfulPings = 0
        /\ stats.failedPings = 0
        /\ stats.lastPingTime = Never

C10_Witness ==
    /\ nodeEnv = "development"
    /\ startCalls = 2
    /\ elapsed >= 2
    /\ CronMatches(minute)
    /\ snapshot.taken

\* C11: a tick whose self-check fails or times out lets no exception escape
\* the timer callback that started it (the recurring one or the warm-up
\* one), so the process is not terminated: the failure is counted in
\* failedPings and nowhere else.
C11_FailedTickEscapesNothing ==
    /\ uncaught = 0
    /\ (inflight = 0) => stats.failedPings = failedTicks

C11_Witness ==
    /\ failedTicks = 2
    /\ stats.failedPings = 2
    /\ lastCronAt # Never
    /\ warmups = 0
    /\ inflight = 0
    /\ uncaught = 0

\* C12: the recurring task runs at a fixed interval: any two consecutive
\* runs are exactly 14 minutes apart, also when an hour boundary lies
\* between them.
C12_RecurringTicksFixedInterval ==
    (cronGap # NoGap) => cronGap = CronStep

(***************************************************************************)
(* Properties of escapeHtml (specification SpecEscape)                     *)
(***************************************************************************)
Significant == {"&", "<", ">", "\"", "'"}
Entities == {AmpEntity, LtEntity, GtEntity, QuotEntity, AposEntity}

\* the character an entity stands for
EntityChar(e) ==
    CASE e = AmpEntity -> "&"
      [] e = LtEntity -> "<"
      [] e = GtEntity -> ">"
      [] e = QuotEntity -> "\""
      [] e = AposEntity -> "'"

\* the entity that starts at position i of text, <<>> when none does
EntityAt(text, i) ==
    LET found == {e \in Entities :
                    /\ i + Len(e) - 1 <= Len(text)
                    /\ SubSeq(text, i, i + Len(e) - 1) = e}
    IN IF found = {} THEN <<>> ELSE CHOOSE e \in found : TRUE

\* text read from position i with every entity turned back into its
\* character
RECURSIVE DecodeFrom(_, _)
DecodeFrom(text, i) ==
    IF i > Len(text)
    THEN <<>>
    ELSE LET e == EntityAt(text, i)
         IN IF e = <<>>
            THEN <<text[i]>> \o DecodeFrom(text, i + 1)
            ELSE <<EntityChar(e)>> \o DecodeFrom(text, i + Len(e))

\* text with every ampersand that starts an entity replaced by &amp;
RECURSIVE AmpToEntityFrom(_, _)
AmpToEntityFrom(text, i) ==
    IF i > Len(text)
    THEN <<>>
    ELSE (IF text[i] = "&" /\ EntityAt(text, i) # <<>>
          THEN AmpEntity
          ELSE <<text[i]>>) \o AmpToEntityFrom(text, i + 1)

Escaped == result[1]

\* C13: the output of escapeHtml holds no literal <, >, double quote or
\* apostrophe; every & of the output starts one of the five entities
\* (&amp; &lt; &gt; &quot; &#039;); reading the
\* entities back gives the input, so every other character is unchanged and
\* in its place; the empty string gives the empty string.
C13_EscapeOutputIsSafe ==
    (called = "escapeHtml") =>
        /\ \A i \in 1..Len(Escaped) :
              /\ Escaped[i] \notin {"<", ">", "\"", "'"}
              /\ (Escaped[i] = "&") => EntityAt(Escaped, i) # <<>>
        /\ DecodeFrom(Escaped, 1) = arg
        /\ (arg = <<>>) => Escaped = <<>>

C13_Witness ==
    /\ called = "escapeHtml"
    /\ arg = <<"<", "&", "'", EAcute>>
    /\ Escaped = LtEntity \o AmpEntity \o AposEntity \o <<EAcute>>

\* C14: escaping twice gives the once-escaped text with each & that starts
\* an entity replaced by &amp; and nothing else changed; so escaping twice
\* equals escaping once exactly when the input holds none of the five
\* significant characters.
C14_EscapeTwice ==
    (Len(result) >= 2) =>
        /\ result[2] = AmpToEntityFrom(Escaped, 1)
        /\ (result[2] = Escaped) <=>
              (\A i \in 1..Len(arg) : arg[i] \notin Significant)

C14_Witness ==
    /\ Len(result) = 2
    /\ arg = <<"a", "<", "&">>
    /\ Escaped = <<"a">> \o LtEntity \o AmpEntity
    /\ result[2] = <<"a">> \o AmpEntity \o <<"l", "t", ";">>
                      \o AmpEntity \o <<"a", "m", "p", ";">>

(***************************************************************************)
(* Properties of the email templates (specification SpecRender)            *)
(***************************************************************************)
Rendered == called \in {"generateReviewRequestHtml", "generateFeedbackEmailHtml"}
Html == result[1]

\* the interpolations that insert a string the caller supplied
CallerStrings ==
    {"customerName", "businessName", "reviewLink", "feedback",
     "customData.buttonText"}

Holds(text, ch) == \E i \in 1..Len(text) : text[i] = ch

\* C15: in every render of either template, every string the caller
\* supplied, the custom button text included, is interpolated in escaped
\* form: no piece that comes from such a string holds a < or a double quote.
C15_CallerStringsEscaped ==
    Rendered =>
        \A i \in 1..Len(Html) :
            (Html[i].from \in CallerStrings) =>
                /\ ~Holds(Html[i].text, "<")
                /\ ~Holds(Html[i].text, "\"")

\* C16: a customer name that holds <script> appears in the HTML body in
\* escaped form only, at every place the name is interpolated, in both
\* templates that take a name.
C16_ScriptNameEscaped ==
    (Rendered /\ arg.customerName = ScriptTag) =>
        /\ \E i \in 1..Len(Html) : Html[i].from = "customerName"
        /\ \A i \in 1..Len(Html) :
              (Html[i].from = "customerName") =>
                  Html[i].text = LtEntity \o <<"s", "c", "r", "i", "p", "t">>
                                    \o GtEntity

C16_Witness ==
    /\ called = "generateFeedbackEmailHtml"
    /\ arg.customerName = ScriptTag
    /\ Html[4].from = "customerName"
    /\ Html[4].text[1] = "&"
    /\ Len(Html[4].text) = 14

(***************************************************************************)
(* Properties of the SMS template (specification SpecSms)                  *)
(***************************************************************************)
Message == result[1]
Template == arg.customData.messageTemplate

\* the parts of a template that are no recognized placeholder
RECURSIVE OtherParts(_)
OtherParts(text) ==
    IF text = <<>>
    THEN <<>>
    ELSE (IF Head(text) \in Placeholders THEN <<>> ELSE <<Head(text)>>)
            \o OtherParts(Tail(text))

\* small occurs in big, in order, not necessarily contiguously
RECURSIVE IsSubsequence(_, _)
IsSubsequence(small, big) ==
    IF small = <<>>
    THEN TRUE
    ELSE IF big = <<>>
         THEN FALSE
         ELSE IF Head(small) = Head(big)
              THEN IsSubsequence(Tail(small), Tail(big))
              ELSE IsSubsequence(small, Tail(big))

\* the value of a recognized placeholder
ValueOf(part) ==
    CASE part = "{{customerName}}" -> arg.customerName
      [] part = "{{businessName}}" -> arg.businessName
      [] part = "{{reviewLink}}" -> arg.reviewLink

\* the template with each recognized placeholder replaced by its value and
\* every other part kept
RECURSIVE Substituted(_)
Substituted(text) ==
    IF text = <<>>
    THEN <<>>
    ELSE (IF Head(text) \in Placeholders
          THEN ValueOf(Head(text))
          ELSE <<Head(text)>>) \o Substituted(Tail(text))

\* the values are plain text and no recognized placeholder occurs twice
PlainCase ==
    /\ arg.customerName = <<"Jane">>
    /\ arg.reviewLink = <<"https://g.co/r">>
    /\ \A i, j \in 1..Len(Template) :
          (Template[i] \in Placeholders /\ Template[i] = Template[j]) => i = j

\* C17: with a message template only the three recognized placeholders are
\* substituted: an unknown placeholder such as {{foo}} and all other text of
\* the template are in the output as they were and in their order; without
\* a message template the output is the default message.
C17_OnlyRecognizedPlaceholders ==
    (called = "generateReviewRequestMessage") =>
        IF HasTemplate(arg.customData)
        THEN /\ IsSubsequence(OtherParts(Template), Message)
             /\ PlainCase => Message = Substituted(Template)
        ELSE Message = <<"Hi ">> \o arg.customerName
                          \o <<", thank you for choosing ">>
                          \o arg.businessName
                          \o <<"! We'd love to hear your feedback. Please share your experience here: ">>
                          \o arg.reviewLink

C17_Witness ==
    /\ called = "generateReviewRequestMessage"
    /\ Template = <<"{{customerName}}", "{{foo}}">>
    /\ arg.customerName = <<"Jane">>
    /\ Message = <<"Jane", "{{foo}}">>

(***************************************************************************)
(* Properties of the feedback route (specification Spec)                   *)
(***************************************************************************)
FeedbackHandled == req.route = "emailFeedback" /\ pc # "idle"
WholeRatings == {Rating(n * 10) : n \in 1..5}

\* C18: every rating that reaches the feedback template is an integer from
\* 1 to 5: a rating of 0 or 6, or any other value that is not one of the
\* integers 1 to 5, is rejected with the 400 response before the template
\* and the provider are called, and each of 1 to 5 passes.
C18_RatingIsWholeOneToFive ==
    FeedbackHandled =>
        /\ rendered => req.rating \in WholeRatings
        /\ (req.rating \notin WholeRatings) =>
              /\ res.status = 400
              /\ ~rendered
              /\ providerCalls = 0
        /\ (req.rating \in WholeRatings) => "rating" \notin res.errors

\* C18 as the code has it: every rating that reaches the feedback template
\* is a number from 1 to 5, whole or not: a rating below 1 or above 5, or a
\* value that is no number, is rejected with the 400 response before the
\* template and the provider are called, and each of 1 to 5 passes.
C18_RatingInRange ==
    FeedbackHandled =>
        LET inRange == /\ req.rating.float
                       /\ req.rating.tenths >= 10
                       /\ req.rating.tenths <= 50
        IN /\ rendered => inRange
           /\ ~inRange =>
                 /\ res = ValidationFailed(FeedbackErrors(req))
                 /\ "rating" \in res.errors
                 /\ ~rendered
                 /\ providerCalls = 0
           /\ inRange => "rating" \notin res.errors

C18_Witness ==
    /\ FeedbackHandled
    /\ req.rating = Rating(60)
    /\ res.errors = {"rating"}
    /\ res.status = 400
    /\ ~rendered

\* C19: a provider call that receives no response does not stay pending:
\* on either channel the dispatch ends, the caller is answered, and the
\* failure it is answered with is the classified no-response failure.
C19_NoResponseEndsAsUnreachable ==
    (outcome.kind = "noResponse") =>
        /\ pc = "done"
        /\ res.status # 0
        /\ res.message = MsgNoResponse

(***************************************************************************)
(* Properties of the whole server (specification SpecServer)               *)
(***************************************************************************)
\* C20: dispatch and the keep-alive service do not interfere: no step of a
\* dispatch changes the keep-alive counters (or anything else of the
\* keep-alive service), and no step of a tick changes the request, the
\* provider outcome, the result or the failure of a dispatch.
C20_NoInterference ==
    [][/\ (dispatchVars' # dispatchVars) => (keepAliveVars' = keepAliveVars)
       /\ (keepAliveVars' # keepAliveVars) => (dispatchVars' = dispatchVars)]_vars

C20_Witness ==
    /\ pc = "awaitSms"
    /\ inflight = 1
    /\ stats.totalPings = 2
    /\ stats.failedPings = 1
    /\ providerCalls = 1

(***************************************************************************)
(* Properties of the health routes (specification SpecHealth)              *)
(***************************************************************************)
\* C21: at any time (before start, while the service is disabled, while a
\* tick is in flight) every health route that reports liveness answers with
\* success and with the counters, and no exception is left uncaught.
C21_LivenessQueriesSucceed ==
    (healthRes.route # "none") =>
        /\ healthRes.status = 200
        /\ healthRes.keepAlive.taken
        /\ uncaught = 0

\* C22: for a request that passed validation on a channel whose provider is
\* unconfigured, the configuration check comes before rendering on both
\* channels: no template function is called, and the failure is the
\* unconfigured failure, never an error of the rendering.
C22_ConfigCheckBeforeRendering ==
    (req.route # "none" /\ ~StructurallyInvalid(req) /\ ChannelUnconfigured) =>
        /\ ~rendered
        /\ thrown.message = UnconfiguredMessage

\* C23: on every route a failure reaches the caller with the status of its
\* class: a validation failure with 400, and the unconfigured failure with
\* 503.
C23_StatusOfFailureClass ==
    (req.route # "none") =>
        /\ StructurallyInvalid(req) => res.status = 400
        /\ (thrown.message = UnconfiguredMessage) => res.status = 503

(***************************************************************************)
(* Properties of the keep-alive timers (specification SpecKALive)          *)
(***************************************************************************)
\* C24: in production mode every start schedules one warm-up tick, which is
\* performed without waiting for an instant of the recurring task (as long
\* as the recurring task has not run, the ticks begun and the warm-ups
\* still pending add up to the calls of start, and a pending warm-up does
\* fire); from the first start on the recurring task stays registered, and
\* no step unregisters it.
C24_WarmupThenRunning ==
    /\ []((startCalls > 0) => cronTasks > 0)
    /\ []((lastCronAt = Never) => warmups + stats.totalPings = startCalls)
    /\ [][cronTasks' >= cronTasks]_vars
    /\ (warmups > 0) ~> (warmups = 0)

C24_Witness ==
    /\ startCalls = 1
    /\ cronTasks = 1
    /\ warmups = 0
    /\ stats.totalPings = 1
    /\ completedTicks = 1
    /\ lastCronAt = Never
    /\ elapsed = 0

(***************************************************************************)
(* Further properties of the SMS template (specification SpecSms)          *)
(***************************************************************************)
\* C25: with a message template, the SMS body is the template with every
\* occurrence of each recognized placeholder replaced by its value taken
\* literally: a placeholder that occurs twice is replaced twice, and a value
\* that holds a placeholder or a replacement pattern is in the body as it
\* was given.
C25_EveryOccurrenceLiterally ==
    (called = "generateReviewRequestMessage" /\ HasTemplate(arg.customData)) =>
        Message = Substituted(Template)

(***************************************************************************)
(* Further properties of the keep-alive service (specification SpecKA)     *)
(***************************************************************************)
\* C26: in every state of the keep-alive service, also while ticks are in
\* flight or overlap, successfulPings + failedPings <= totalPings, and no
\* step makes any of the three counters smaller.
C26_CountersBoundedAndMonotone ==
    /\ [](stats.successfulPings + stats.failedPings <= stats.totalPings)
    /\ [][/\ stats'.totalPings >= stats.totalPings
          /\ stats'.successfulPings >= stats.successfulPings
          /\ stats'.failedPings >= stats.failedPings]_vars

C26_Witness ==
    /\ inflight = 2
    /\ lastCronAt # Never
    /\ stats.totalPings = 4
    /\ stats.successfulPings = 1
    /\ stats.failedPings = 1

====
